---- MODULE Spec2Model ----
(***************************************************************************)
(* Hash snapshots of target-determinator: the persisted snapshot store     *)
(* (pkg/hash_persistence.go: PersistHashes, LoadPersistedHashes), the      *)
(* comparison engine (CompareHashFiles, GetAffectedTargetLabels) and the   *)
(* hash-differ command (main, outputJSON, outputTargetList, outputSummary).*)
(*                                                                         *)
(* Go strings are sequences of bytes (naturals 0..255); the empty Go       *)
(* string is <<>>.  A Go map is a function; `range` over a map visits its  *)
(* keys in an order the runtime picks, so every loop over a map is a       *)
(* choice among all orders of its keys.                                    *)
(***************************************************************************)
EXTENDS Integers, Sequences, FiniteSets, TLC

VARIABLES
    pc,             \* position of the run: "start", then one value per finished call
    beforeFile,     \* content of the file named by <before-hash-file>
    afterFile,      \* content of the file named by <after-hash-file>
    result,         \* *HashComparisonResult returned by CompareHashFiles, or Nil
    err,            \* error returned by CompareHashFiles ("" is nil)
    result2,        \* result of a second CompareHashFiles call on the same files
    labels,         \* value returned by GetAffectedTargetLabels
    flags,          \* hashDifferFlags of a hash-differ run
    sink,           \* the output destination of a hash-differ run
    out,            \* the writes the output destination accepted, in order
    exitCode,       \* exit status of the hash-differ process (-1: still running)
    queryResults,   \* inputs of PersistHashes
    persistedData,  \* the PersistedHashData built by PersistHashes
    storeFile,      \* content of the file PersistHashes wrote
    storeErr,       \* error returned by PersistHashes / LoadPersistedHashes
    loaded          \* *PersistedHashData returned by LoadPersistedHashes

vars == <<pc, beforeFile, afterFile, result, err, result2, labels, flags, sink,
          out, exitCode, queryResults, persistedData, storeFile, storeErr, loaded>>

(***************************************************************************)
(* Bounds of the model.                                                    *)
(***************************************************************************)
\* (label, configuration) entries of the before- and the after-snapshot together
MaxEntries == 4

(***************************************************************************)
(* Text.                                                                   *)
(***************************************************************************)
\* "//a:x", "//a": target labels, one a proper prefix of the other
Labels == {<<47, 47, 97, 58, 120>>, <<47, 47, 97>>}

\* "c1", "c2": configuration checksums
Configs == {<<99, 49>>, <<99, 50>>}

\* "aa", "bb": hex hashes
Hashes == {<<97, 97>>, <<98, 98>>}

\* the Go nil pointer / absent result
Nil == [nil |-> TRUE]

Range(s) == {s[i] : i \in DOMAIN s}

\* all orders in which `range` may visit the key set S
Perms(S) ==
    {s \in [1..Cardinality(S) -> S] :
        \A i, j \in 1..Cardinality(S) : i # j => s[i] # s[j]}

\* Go's < on strings: bytewise lexicographic
RECURSIVE StrLess(_, _)
StrLess(a, b) ==
    IF a = <<>> THEN b # <<>>
    ELSE IF b = <<>> THEN FALSE
    ELSE IF a[1] # b[1] THEN a[1] < b[1]
    ELSE StrLess(Tail(a), Tail(b))

RECURSIVE InsertSorted(_, _)
InsertSorted(x, s) ==
    IF s = <<>> THEN <<x>>
    ELSE IF StrLess(x, Head(s)) THEN <<x>> \o s
    ELSE <<Head(s)>> \o InsertSorted(x, Tail(s))

SortStringsUnsorted(s) == s

\* sort.Strings: the slice in ascending order of StrLess
RECURSIVE SortStrings(_)
SortStrings(s) ==
    IF s = <<>> THEN <<>>
    ELSE InsertSorted(Head(s), SortStrings(Tail(s)))

(***************************************************************************)
(* encoding/json and time, as far as the snapshot schema uses them.  A     *)
(* JSON string is a sequence of Unicode code points; a Go string is a      *)
(* sequence of bytes.                                                      *)
(***************************************************************************)
IsCont(b) == b \in 128..191

\* the bounds utf8.DecodeRuneInString puts on the second byte of a sequence
SecondOK(b1, b2) ==
    CASE b1 = 224 -> b2 \in 160..191
      [] b1 = 237 -> b2 \in 128..159
      [] b1 = 240 -> b2 \in 144..191
      [] b1 = 244 -> b2 \in 128..143
      [] OTHER -> IsCont(b2)

\* json.Marshal of a Go string: its runes, each byte that is not part of a
\* valid UTF-8 sequence coerced to U+FFFD
\* (utf8.RuneError, 65533)
RECURSIVE EncodeString(_)
EncodeString(b) ==
    IF b = <<>> THEN <<>>
    ELSE LET b1 == b[1]
             n == Len(b)
         IN IF b1 < 128 THEN <<b1>> \o EncodeString(Tail(b))
            ELSE IF b1 \in 194..223 /\ n >= 2 /\ IsCont(b[2])
            THEN <<(b1 - 192) * 64 + (b[2] - 128)>> \o EncodeString(SubSeq(b, 3, n))
            ELSE IF b1 \in 224..239 /\ n >= 3 /\ SecondOK(b1, b[2]) /\ IsCont(b[3])
            THEN <<(b1 - 224) * 4096 + (b[2] - 128) * 64 + (b[3] - 128)>>
                 \o EncodeString(SubSeq(b, 4, n))
            ELSE IF b1 \in 240..244 /\ n >= 4 /\ SecondOK(b1, b[2]) /\ IsCont(b[3])
                    /\ IsCont(b[4])
            THEN <<(b1 - 240) * 262144 + (b[2] - 128) * 4096 + (b[3] - 128) * 64
                   + (b[4] - 128)>> \o EncodeString(SubSeq(b, 5, n))
            ELSE <<65533>> \o EncodeString(Tail(b))

\* utf8.EncodeRune
EncodeRune(r) ==
    IF r < 128 THEN <<r>>
    ELSE IF r < 2048 THEN <<192 + (r \div 64), 128 + (r % 64)>>
    ELSE IF r < 65536
    THEN <<224 + (r \div 4096), 128 + ((r \div 64) % 64), 128 + (r % 64)>>
    ELSE <<240 + (r \div 262144), 128 + ((r \div 4096) % 64),
           128 + ((r \div 64) % 64), 128 + (r % 64)>>

\* json.Unmarshal of a JSON string into a Go string
RECURSIVE DecodeString(_)
DecodeString(cps) ==
    IF cps = <<>> THEN <<>>
    ELSE EncodeRune(Head(cps)) \o DecodeString(Tail(cps))

\* the greatest string of a non-empty set
MaxStr(S) == CHOOSE x \in S : \A y \in S : y = x \/ StrLess(y, x)

\* json.Marshal of a map[string]V: the keys are written in sorted order, so of
\* two Go keys with the same JSON text the greater is written last, and the
\* decoder keeps the last
EncodeConfigs(c) ==
    [k \in {EncodeString(g) : g \in DOMAIN c} |->
        EncodeString(c[MaxStr({g \in DOMAIN c : EncodeString(g) = k})])]

DecodeConfigs(c) ==
    [g \in {DecodeString(k) : k \in DOMAIN c} |->
        DecodeString(c[CHOOSE k \in DOMAIN c : DecodeString(k) = g])]

EncodeTargetHashes(m) ==
    [k \in {EncodeString(g) : g \in DOMAIN m} |->
        EncodeConfigs(m[MaxStr({g \in DOMAIN m : EncodeString(g) = k})])]

DecodeTargetHashes(m) ==
    [g \in {DecodeString(k) : k \in DOMAIN m} |->
        DecodeConfigs(m[CHOOSE k \in DOMAIN m : DecodeString(k) = g])]

\* Time.MarshalJSON: the RFC 3339 text with nanoseconds, i.e. the local
\* date-time of the instant together with the zone offset; the monotonic
\* clock reading is not written
FormatTime(t) == [local |-> t.wall + t.off, off |-> t.off]

\* Time.UnmarshalJSON
ParseTime(x) == [wall |-> x.local - x.off, off |-> x.off, mono |-> 0]

\* the zero time.Time
ZeroTime == [wall |-> 0, off |-> 0, mono |-> 0]

\* Time.Equal: the same instant
TimeEqual(t, u) == t.wall = u.wall

(***************************************************************************)
(* Snapshot files.  A file is missing, unreadable, malformed (its bytes do *)
(* not decode as a JSON value of the schema's types: a syntax error, a     *)
(* truncated document, a member of the wrong type), or holds a JSON object *)
(* with the members named in `present`.                                    *)
(***************************************************************************)
Members == {"git_commit_sha", "timestamp", "bazel_release", "target_hashes", "metadata"}

MissingFile == [kind |-> "missing"]
UnreadableFile == [kind |-> "unreadable"]
MalformedFile == [kind |-> "malformed"]

MarshalOmitEmpty(d) ==
    [kind |-> "object",
     present |-> Members,
     git_commit_sha |-> EncodeString(d.GitCommitSha),
     timestamp |-> FormatTime(d.Timestamp),
     bazel_release |-> EncodeString(d.BazelRelease),
     target_hashes |->
         EncodeTargetHashes([l \in {x \in DOMAIN d.TargetHashes : DOMAIN d.TargetHashes[x] # {}}
                                 |-> d.TargetHashes[l]]),
     metadata |-> [targets_pattern |-> EncodeString(d.Metadata.TargetsPattern),
                   workspace_path |-> EncodeString(d.Metadata.WorkspacePath),
                   total_targets |-> d.Metadata.TotalTargets]]

\* json.Encoder.Encode(persistedData)
Marshal(d) ==
    [kind |-> "object",
     present |-> Members,
     git_commit_sha |-> EncodeString(d.GitCommitSha),
     timestamp |-> FormatTime(d.Timestamp),
     bazel_release |-> EncodeString(d.BazelRelease),
     target_hashes |-> EncodeTargetHashes(d.TargetHashes),
     metadata |-> [targets_pattern |-> EncodeString(d.Metadata.TargetsPattern),
                   workspace_path |-> EncodeString(d.Metadata.WorkspacePath),
                   total_targets |-> d.Metadata.TotalTargets]]

ZeroMetadata == [TargetsPattern |-> <<>>, WorkspacePath |-> <<>>, TotalTargets |-> 0]

\* json.Decoder.Decode(&persistedData) on a JSON object: each member present
\* is stored in its field, a field whose member is absent keeps its zero
\* value (TargetHashes: the nil map, which ranges over nothing)
Unmarshal(f) ==
    [GitCommitSha |-> IF "git_commit_sha" \in f.present
                      THEN DecodeString(f.git_commit_sha) ELSE <<>>,
     Timestamp |-> IF "timestamp" \in f.present THEN ParseTime(f.timestamp) ELSE ZeroTime,
     BazelRelease |-> IF "bazel_release" \in f.present
                      THEN DecodeString(f.bazel_release) ELSE <<>>,
     TargetHashes |-> IF "target_hashes" \in f.present
                      THEN DecodeTargetHashes(f.target_hashes) ELSE <<>>,
     TargetHashesNil |-> "target_hashes" \notin f.present,
     Metadata |-> IF "metadata" \in f.present
                  THEN [TargetsPattern |-> DecodeString(f.metadata.targets_pattern),
                        WorkspacePath |-> DecodeString(f.metadata.workspace_path),
                        TotalTargets |-> f.metadata.total_targets]
                  ELSE ZeroMetadata]

\* LoadPersistedHashes(filePath): <<*PersistedHashData, error>>
LoadPersistedHashes(f) ==
    IF f.kind \in {"missing", "unreadable"}
    THEN [data |-> Nil, err |-> "failed to open hash file"]
    ELSE IF f.kind = "malformed"
    THEN [data |-> Nil, err |-> "failed to decode hash data"]
    ELSE [data |-> Unmarshal(f), err |-> ""]

(***************************************************************************)
(* HashDiff, HashComparisonSummary, HashComparisonResult and               *)
(* CompareHashFiles.                                                       *)
(***************************************************************************)
HashDiff(label, config, status, beforeHash, afterHash) ==
    [Label |-> label, Configuration |-> config, Status |-> status,
     BeforeHash |-> beforeHash, AfterHash |-> afterHash]

\* the body of `for config, beforeHash := range beforeConfigs` for a label
\* the after file does not have, the configurations visited in `order`
RemovedTarget(label, beforeConfigs, order) ==
    [i \in 1..Len(order) |->
        HashDiff(label, order[i], "removed", beforeConfigs[order[i]], <<>>)]

CheckConfigSwapped(label, config, beforeConfigs, afterConfigs) ==
    IF config \notin DOMAIN afterConfigs
    THEN <<HashDiff(label, config, "added", <<>>, beforeConfigs[config])>>
    ELSE IF beforeConfigs[config] # afterConfigs[config]
    THEN <<HashDiff(label, config, "changed", beforeConfigs[config], afterConfigs[config])>>
    ELSE <<>>

CheckConfigNoCompare(label, config, beforeConfigs, afterConfigs) ==
    IF config \notin DOMAIN afterConfigs
    THEN <<HashDiff(label, config, "removed", beforeConfigs[config], <<>>)>>
    ELSE <<HashDiff(label, config, "changed", beforeConfigs[config], afterConfigs[config])>>

\* one iteration of `for config, beforeHash := range beforeConfigs` for a
\* label both files have: the records it appends
CheckConfig(label, config, beforeConfigs, afterConfigs) ==
    IF config \notin DOMAIN afterConfigs
    THEN <<HashDiff(label, config, "removed", beforeConfigs[config], <<>>)>>
    ELSE IF beforeConfigs[config] # afterConfigs[config]
    THEN <<HashDiff(label, config, "changed", beforeConfigs[config], afterConfigs[config])>>
    ELSE <<>>

RECURSIVE CheckConfigs(_, _, _, _)
CheckConfigs(label, beforeConfigs, afterConfigs, order) ==
    IF order = <<>> THEN <<>>
    ELSE CheckConfig(label, Head(order), beforeConfigs, afterConfigs)
         \o CheckConfigs(label, beforeConfigs, afterConfigs, Tail(order))

AddedConfigAlways(label, config, beforeConfigs, afterConfigs) ==
    <<HashDiff(label, config, "added", <<>>, afterConfigs[config])>>

\* one iteration of `for config, afterHash := range afterConfigs` for a label
\* both files have
AddedConfig(label, config, beforeConfigs, afterConfigs) ==
    IF config \notin DOMAIN beforeConfigs
    THEN <<HashDiff(label, config, "added", <<>>, afterConfigs[config])>>
    ELSE <<>>

RECURSIVE AddedConfigs(_, _, _, _)
AddedConfigs(label, beforeConfigs, afterConfigs, order) ==
    IF order = <<>> THEN <<>>
    ELSE AddedConfig(label, Head(order), beforeConfigs, afterConfigs)
         \o AddedConfigs(label, beforeConfigs, afterConfigs, Tail(order))

\* the records one iteration of `for label, beforeConfigs := range
\* beforeData.TargetHashes` can append, one sequence per order of the inner loops
BeforeLabel(label, before, after) ==
    IF label \notin DOMAIN after
    THEN {RemovedTarget(label, before[label], o) : o \in Perms(DOMAIN before[label])}
    ELSE {CheckConfigs(label, before[label], after[label], bo)
          \o AddedConfigs(label, before[label], after[label], ao) :
             bo \in Perms(DOMAIN before[label]), ao \in Perms(DOMAIN after[label])}

RECURSIVE BeforeLoop(_, _, _)
BeforeLoop(before, after, order) ==
    IF order = <<>> THEN {<<>>}
    ELSE {h \o t : h \in BeforeLabel(Head(order), before, after),
                   t \in BeforeLoop(before, after, Tail(order))}

\* the body of `for config, afterHash := range afterConfigs` for an entirely
\* new target
AddedTarget(label, afterConfigs, order) ==
    [i \in 1..Len(order) |->
        HashDiff(label, order[i], "added", <<>>, afterConfigs[order[i]])]

\* one iteration of `for label, afterConfigs := range afterData.TargetHashes`
AfterLabel(label, before, after) ==
    IF label \notin DOMAIN before
    THEN {AddedTarget(label, after[label], o) : o \in Perms(DOMAIN after[label])}
    ELSE {<<>>}

RECURSIVE AfterLoop(_, _, _)
AfterLoop(before, after, order) ==
    IF order = <<>> THEN {<<>>}
    ELSE {h \o t : h \in AfterLabel(Head(order), before, after),
                   t \in AfterLoop(before, after, Tail(order))}

\* every value `differences` can have after the two loops over the labels
Differences(before, after) ==
    UNION {{d1 \o d2 : d1 \in BeforeLoop(before, after, o1),
                       d2 \in AfterLoop(before, after, o2)} :
           o1 \in Perms(DOMAIN before), o2 \in Perms(DOMAIN after)}

AffectedTargetsSetChangedOnly(differences) ==
    {differences[i].Label : i \in {j \in DOMAIN differences :
                                      differences[j].Status = "changed"}}

\* affectedTargetsSet: each append to differences is followed by
\* affectedTargetsSet[label] = true
AffectedTargetsSet(differences) == {differences[i].Label : i \in DOMAIN differences}

\* `for label := range affectedTargetsSet { append }` then sort.Strings
AffectedTargets(differences) ==
    {SortStrings(o) : o \in Perms(AffectedTargetsSet(differences))}

CountStatusOffByOne(differences, status) ==
    Cardinality({i \in DOMAIN differences : differences[i].Status = status})
    + (IF status = "removed" /\ differences # <<>> THEN 1 ELSE 0)

\* the tally of `switch diff.Status` over differences for one status
CountStatus(differences, status) ==
    Cardinality({i \in DOMAIN differences : differences[i].Status = status})

\* Summary.AfterTargets[label]: the label has at least one configuration in
\* the after-snapshot's map
AfterTargets(after) == {l \in DOMAIN after : DOMAIN after[l] # {}}

\* HashComparisonSummary
Summary(differences, affectedTargets, after) ==
    [TotalChanged |-> CountStatus(differences, "changed"),
     TotalAdded |-> CountStatus(differences, "added"),
     TotalRemoved |-> CountStatus(differences, "removed"),
     AffectedTargets |-> affectedTargets,
     AfterTargets |-> AfterTargets(after)]

\* every <<*HashComparisonResult, error>> CompareHashFiles(beforeFile,
\* afterFile) can return
CompareHashFiles(bf, af) ==
    LET b == LoadPersistedHashes(bf)
        a == LoadPersistedHashes(af)
    IN IF b.err # ""
       THEN {[result |-> Nil, err |-> "failed to load before hash file"]}
       ELSE IF a.err # ""
       THEN {[result |-> Nil, err |-> "failed to load after hash file"]}
       ELSE UNION {{[result |-> [BeforeCommit |-> b.data.GitCommitSha,
                                 AfterCommit |-> a.data.GitCommitSha,
                                 Differences |-> d,
                                 Summary |-> Summary(d, t, a.data.TargetHashes)],
                     err |-> ""] : t \in AffectedTargets(d)} :
                   d \in Differences(b.data.TargetHashes, a.data.TargetHashes)}

\* gazelle_label.Parse accepts the label text (every label of Labels has
\* the //pkg or //pkg:name form)
LabelParses(s) == Len(s) >= 2 /\ s[1] = 47 /\ s[2] = 47

RECURSIVE SeenLoop(_, _, _)
SeenLoop(differences, seenLabels, acc) ==
    IF differences = <<>> THEN [labels |-> acc, err |-> ""]
    ELSE LET diff == Head(differences)
         IN IF diff.Label \notin seenLabels
            THEN IF ~LabelParses(diff.Label)
                 THEN [labels |-> Nil, err |-> "failed to parse label"]
                 ELSE SeenLoop(Tail(differences), seenLabels \cup {diff.Label},
                               Append(acc, diff.Label))
            ELSE SeenLoop(Tail(differences), seenLabels, acc)

\* (*HashComparisonResult).GetAffectedTargetLabels, on result.Differences:
\* <<[]gazelle_label.Label, error>>, a label given by its text
GetAffectedTargetLabels(differences) == SeenLoop(differences, {}, <<>>)

(***************************************************************************)
(* The inputs: snapshot files.                                             *)
(***************************************************************************)
ConfigMaps == UNION {[S -> Hashes] : S \in SUBSET Configs}

\* the number of (label, configuration) entries of a label -> configuration
\* -> hash map
Entries(m) == Cardinality({p \in (DOMAIN m) \X Configs : p[2] \in DOMAIN m[p[1]]})

\* the target-hash maps over Labels and Configs with at most n entries
TargetHashMaps(n) ==
    {m \in UNION {[L -> ConfigMaps] : L \in SUBSET Labels} : Entries(m) <= n}

\* "2024-01-01T00:00:01+01:00"-like timestamp of the snapshot files
FileTime == [wall |-> 1, off |-> 3600, mono |-> 0]

\* the PersistedHashData of revision sha with target hashes m
Snapshot(sha, m) ==
    [GitCommitSha |-> sha,
     Timestamp |-> FileTime,
     BazelRelease |-> <<55>>,
     TargetHashes |-> m,
     TargetHashesNil |-> FALSE,
     Metadata |-> [TargetsPattern |-> <<47, 47, 46, 46, 46>>,
                   WorkspacePath |-> <<47, 119>>,
                   TotalTargets |-> Entries(m)]]

\* a well-formed snapshot file
SnapshotFile(sha, m) == Marshal(Snapshot(sha, m))

\* a JSON object of the schema that has no "target_hashes" member
NoTargetHashesFile(sha) ==
    [SnapshotFile(sha, <<>>) EXCEPT !.present = Members \ {"target_hashes"}]

BadFiles(sha) == {MissingFile, UnreadableFile, MalformedFile, NoTargetHashesFile(sha)}

\* "b1", "a2": the revision ids of the two files
BeforeSha == <<98, 49>>
AfterSha == <<97, 50>>

InputPairs ==
    UNION {{<<b, a>> : a \in TargetHashMaps(MaxEntries - Entries(b))} :
           b \in TargetHashMaps(MaxEntries)}

Inputs ==
    {<<SnapshotFile(BeforeSha, p[1]), SnapshotFile(AfterSha, p[2])>> : p \in InputPairs}
    \cup {<<b, SnapshotFile(AfterSha, a)>> :
            b \in BadFiles(BeforeSha), a \in TargetHashMaps(MaxEntries - 1)}
    \cup {<<SnapshotFile(BeforeSha, b), a>> :
            b \in TargetHashMaps(MaxEntries - 1), a \in BadFiles(AfterSha)}
    \cup (BadFiles(BeforeSha) \X BadFiles(AfterSha))

(***************************************************************************)
(* The comparison engine called as a library.                              *)
(***************************************************************************)
Idle ==
    /\ result = Nil
    /\ err = ""
    /\ result2 = Nil
    /\ labels = Nil
    /\ flags = Nil
    /\ sink = Nil
    /\ out = <<>>
    /\ exitCode = -1
    /\ queryResults = Nil
    /\ persistedData = Nil
    /\ storeFile = MissingFile
    /\ storeErr = ""
    /\ loaded = Nil

Init ==
    /\ pc = "start"
    /\ \E p \in Inputs : beforeFile = p[1] /\ afterFile = p[2]
    /\ Idle

\* result, err := pkg.CompareHashFiles(beforeFile, afterFile)
CallCompareHashFiles ==
    /\ pc = "start"
    /\ \E r \in CompareHashFiles(beforeFile, afterFile) :
          /\ result' = r.result
          /\ err' = r.err
    /\ pc' = "compared"
    /\ UNCHANGED <<beforeFile, afterFile, result2, labels, flags, sink, out, exitCode,
                   queryResults, persistedData, storeFile, storeErr, loaded>>

\* the same call once more, on the same two files
CallCompareHashFilesAgain ==
    /\ pc = "compared"
    /\ \E r \in CompareHashFiles(beforeFile, afterFile) : result2' = r
    /\ pc' = "compared again"
    /\ UNCHANGED <<beforeFile, afterFile, result, err, labels, flags, sink, out, exitCode,
                   queryResults, persistedData, storeFile, storeErr, loaded>>

\* labels, err := result.GetAffectedTargetLabels()
CallGetAffectedTargetLabels ==
    /\ pc = "compared"
    /\ result # Nil
    /\ labels' = GetAffectedTargetLabels(result.Differences)
    /\ pc' = "labelled"
    /\ UNCHANGED <<beforeFile, afterFile, result, err, result2, flags, sink, out, exitCode,
                   queryResults, persistedData, storeFile, storeErr, loaded>>

Next ==
    \/ CallCompareHashFiles
    \/ CallCompareHashFilesAgain
    \/ CallGetAffectedTargetLabels

Spec == Init /\ [][Next]_vars

(***************************************************************************)
(* Properties of the comparison engine.                                    *)
(***************************************************************************)
\* the label -> configuration -> hash maps of the two snapshots compared
BeforeHashes == LoadPersistedHashes(beforeFile).data.TargetHashes
AfterHashes == LoadPersistedHashes(afterFile).data.TargetHashes

Has(m, l, c) == l \in DOMAIN m /\ c \in DOMAIN m[l]

\* the pair (l, c) is one-sided, or has unequal hashes in the snapshots B, A
Differs(B, A, l, c) ==
    \/ Has(B, l, c) /\ ~Has(A, l, c)
    \/ ~Has(B, l, c) /\ Has(A, l, c)
    \/ Has(B, l, c) /\ Has(A, l, c) /\ B[l][c] # A[l][c]

RecordsOf(differences, l, c) ==
    {i \in DOMAIN differences :
        differences[i].Label = l /\ differences[i].Configuration = c}

Compared == pc # "start" /\ result # Nil

\* C1: CompareHashFiles emits exactly one Difference Record for every (label,
\* configuration) pair whose hash is one-sided or unequal, none for a pair
\* whose hash is equal in both snapshots or that is in neither, and never two
\* for one pair, whatever the order of the iterations over the maps.
C1_ExactlyOneRecordPerDifferingPair ==
    Compared =>
        LET B == BeforeHashes
            A == AfterHashes
        IN /\ \A l \in Labels, c \in Configs :
                 Cardinality(RecordsOf(result.Differences, l, c))
                     = IF Differs(B, A, l, c) THEN 1 ELSE 0
           /\ \A i \in DOMAIN result.Differences :
                 /\ result.Differences[i].Label \in Labels
                 /\ result.Differences[i].Configuration \in Configs

\* two records, and a pair with equal hashes in both snapshots
C1_Witness ==
    /\ Compared
    /\ Len(result.Differences) >= 2
    /\ LET B == BeforeHashes
           A == AfterHashes
       IN \E l \in Labels, c \in Configs :
             Has(B, l, c) /\ Has(A, l, c) /\ B[l][c] = A[l][c]

\* C2: every Difference Record has the status of its pair's membership:
\* before only: removed, beforeHash the before value, no afterHash; after
\* only: added, afterHash the after value, no beforeHash; in both and unequal:
\* changed, both hashes their values.
C2_StatusMatchesMembership ==
    Compared =>
        LET B == BeforeHashes
            A == AfterHashes
        IN \A i \in DOMAIN result.Differences :
              LET d == result.Differences[i]
                  inB == Has(B, d.Label, d.Configuration)
                  inA == Has(A, d.Label, d.Configuration)
              IN /\ inB \/ inA
                 /\ (inB /\ ~inA) =>
                       /\ d.Status = "removed"
                       /\ d.BeforeHash = B[d.Label][d.Configuration]
                       /\ d.AfterHash = <<>>
                 /\ (~inB /\ inA) =>
                       /\ d.Status = "added"
                       /\ d.AfterHash = A[d.Label][d.Configuration]
                       /\ d.BeforeHash = <<>>
                 /\ (inB /\ inA) =>
                       /\ d.Status = "changed"
                       /\ d.BeforeHash = B[d.Label][d.Configuration]
                       /\ d.AfterHash = A[d.Label][d.Configuration]
                       /\ d.BeforeHash # d.AfterHash

\* a changed record and a removed record of a configuration that is
\* one-sided under a label both snapshots have
C2_Witness ==
    /\ Compared
    /\ LET A == AfterHashes
       IN \E i, j \in DOMAIN result.Differences :
             /\ result.Differences[i].Status = "changed"
             /\ result.Differences[j].Status = "removed"
             /\ result.Differences[j].Label \in DOMAIN A

\* C3: Summary.AffectedTargets is the set of the labels that have at least one
\* Difference Record, in strictly ascending lexicographic order (so no label
\* twice); a label without a record is not in it.
C3_AffectedTargetsSortedDistinct ==
    Compared =>
        LET t == result.Summary.AffectedTargets
        IN /\ Range(t) = {result.Differences[i].Label : i \in DOMAIN result.Differences}
           /\ \A i \in 1..(Len(t) - 1) : StrLess(t[i], t[i + 1])

\* two affected labels, one of them with two records, the labels visited in
\* descending order
C3_Witness ==
    /\ Compared
    /\ Len(result.Summary.AffectedTargets) >= 2
    /\ Len(result.Differences) > Len(result.Summary.AffectedTargets)
    /\ StrLess(result.Differences[Len(result.Differences)].Label,
               result.Differences[1].Label)

\* C6: a second comparison of the same two files returns the same error, the
\* same set of Difference Records, the same three counts and the same
\* affected-labels sequence as the first, whatever the iteration orders.
C6_RepeatedComparisonAgrees ==
    pc = "compared again" =>
        /\ result2.err = err
        /\ (result = Nil) = (result2.result = Nil)
        /\ result # Nil =>
              /\ Range(result2.result.Differences) = Range(result.Differences)
              /\ Len(result2.result.Differences) = Len(result.Differences)
              /\ result2.result.Summary.TotalAdded = result.Summary.TotalAdded
              /\ result2.result.Summary.TotalRemoved = result.Summary.TotalRemoved
              /\ result2.result.Summary.TotalChanged = result.Summary.TotalChanged
              /\ result2.result.Summary.AffectedTargets = result.Summary.AffectedTargets

\* two comparisons whose differences sequences are in different orders
C6_Witness ==
    /\ pc = "compared again"
    /\ result # Nil
    /\ Len(result.Summary.AffectedTargets) >= 2
    /\ result2.result.Differences # result.Differences

\* C9: GetAffectedTargetLabels returns every distinct label of Differences
\* once, in ascending lexicographic order whatever the order of the records,
\* i.e. the sequence Summary.AffectedTargets.
C9_LabelsSortedLikeSummary ==
    (pc = "labelled" /\ labels.err = "") =>
        labels.labels = result.Summary.AffectedTargets

\* C10: len(Differences) = TotalAdded + TotalRemoved + TotalChanged, each
\* total the number of records of that status, every record of one of the
\* three statuses.
C10_CountsAddUp ==
    Compared =>
        LET d == result.Differences
            n(status) == Cardinality({i \in DOMAIN d : d[i].Status = status})
        IN /\ \A i \in DOMAIN d : d[i].Status \in {"added", "removed", "changed"}
           /\ result.Summary.TotalAdded = n("added")
           /\ result.Summary.TotalRemoved = n("removed")
           /\ result.Summary.TotalChanged = n("changed")
           /\ Len(d) = result.Summary.TotalAdded + result.Summary.TotalRemoved
                       + result.Summary.TotalChanged

\* a result with records of two statuses
C10_Witness ==
    /\ Compared
    /\ result.Summary.TotalRemoved >= 1
    /\ result.Summary.TotalChanged >= 1
    /\ Len(result.Differences) >= 3

\* C11: comparing a snapshot with a copy that has the same label ->
\* configuration -> hash mapping (labels with an empty configuration map
\* included) gives no Difference Record, TotalAdded = TotalRemoved =
\* TotalChanged = 0, an empty Summary.AffectedTargets and an empty sequence
\* of affected labels, whatever the order of the iterations over the maps.
C11_NoDifferenceOnIdenticalCopy ==
    LET B == BeforeHashes
        A == AfterHashes
    IN (Compared /\ B = A) =>
          /\ result.Differences = <<>>
          /\ result.Summary.TotalAdded = 0
          /\ result.Summary.TotalRemoved = 0
          /\ result.Summary.TotalChanged = 0
          /\ result.Summary.AffectedTargets = <<>>
          /\ pc = "compared again" => result2.result.Differences = <<>>
          /\ pc = "labelled" => (labels.labels = <<>> /\ labels.err = "")

\* the affected labels were taken from the comparison of a snapshot of two
\* labels, one with two configurations and one with none, with its copy
C11_Witness ==
    /\ pc = "labelled"
    /\ result # Nil
    /\ BeforeHashes = AfterHashes
    /\ \E l \in DOMAIN BeforeHashes : Cardinality(DOMAIN BeforeHashes[l]) = 2
    /\ \E l \in DOMAIN BeforeHashes : DOMAIN BeforeHashes[l] = {}

(***************************************************************************)
(* The hash-differ command.  The output destination is standard output     *)
(* (flags.outputFile = "") or a file; os.Create of the file can fail, and  *)
(* the destination accepts a number of writes and fails every later one    *)
(* (a full disk, a closed pipe), or accepts all (accepts = -1).  Logging   *)
(* and the verbose flag, which only logs, are left out; the run is given   *)
(* its two positional arguments.                                           *)
(***************************************************************************)
\* writes a destination accepts before it starts failing
MaxAccepted == 1

\* "o": the name given to -output
OutputFileName == <<111>>

Flags ==
    [outputFormat : {"json", "targets", "summary", "xml"},
     outputFile : {<<>>, OutputFileName},
     includeRemoved : BOOLEAN]

Sinks(f) ==
    [createFails : {FALSE}, accepts : (0..MaxAccepted) \cup {-1}, failed : {FALSE}]
    \cup (IF f.outputFile # <<>>
          THEN {[createFails |-> TRUE, accepts |-> 0, failed |-> FALSE]}
          ELSE {})

\* parseFlags: the error it returns, for two positional arguments
parseFlags(f, bf, af) ==
    IF bf.kind = "missing" THEN "before hash file does not exist"
    ELSE IF af.kind = "missing" THEN "after hash file does not exist"
    ELSE IF f.outputFormat \notin {"json", "targets", "summary"}
    THEN "invalid output format"
    ELSE ""

\* the `if outputFile == "" {...} else { os.Create }` head of the three
\* output functions: the error
OpenOutput(f, k) ==
    IF f.outputFile # <<>> /\ k.createFails THEN "failed to create output file" ELSE ""

\* the i-th write to the destination succeeds
Accepts(k, i) == k.accepts = -1 \/ i <= k.accepts

\* the writes of `lines`, one call each, that the destination accepted
Accepted(k, lines) == SelectSeq([i \in DOMAIN lines |-> <<i, lines[i]>>],
                                LAMBDA x : Accepts(k, x[1]))

Written(k, lines) == [i \in DOMAIN Accepted(k, lines) |-> Accepted(k, lines)[i][2]]

\* outputJSON: encoder.Encode(result) is one write of the whole document
outputJSON(r, f, k) ==
    IF OpenOutput(f, k) # ""
    THEN [out |-> <<>>, err |-> OpenOutput(f, k), failed |-> TRUE]
    ELSE IF Accepts(k, 1)
    THEN [out |-> <<[json |-> r]>>, err |-> "", failed |-> FALSE]
    ELSE [out |-> <<>>, err |-> "write failed", failed |-> TRUE]

EmitsAlways(summary, target, includeRemoved) == TRUE

\* `result.Summary.AfterTargets[target] || includeRemoved`
Emits(summary, target, includeRemoved) ==
    target \in summary.AfterTargets \/ includeRemoved

\* outputTargetList: one Fprintln per emitted label, the first failure returned
outputTargetList(r, f, k) ==
    LET lines == SelectSeq(r.Summary.AffectedTargets,
                           LAMBDA t : Emits(r.Summary, t, f.includeRemoved))
    IN IF OpenOutput(f, k) # ""
       THEN [out |-> <<>>, err |-> OpenOutput(f, k), failed |-> TRUE]
       ELSE IF \A i \in DOMAIN lines : Accepts(k, i)
       THEN [out |-> lines, err |-> "", failed |-> FALSE]
       ELSE [out |-> Written(k, lines), err |-> "failed to write target", failed |-> TRUE]

\* the lines of the summary report, one Fprintf each
SummaryLines(r) ==
    << [text |-> "Hash Comparison Summary"],
       [text |-> "======================"],
       [text |-> "Before commit", value |-> r.BeforeCommit],
       [text |-> "After commit", value |-> r.AfterCommit],
       [text |-> ""],
       [text |-> "Target Changes:"],
       [text |-> "Changed", value |-> r.Summary.TotalChanged],
       [text |-> "Added", value |-> r.Summary.TotalAdded],
       [text |-> "Removed", value |-> r.Summary.TotalRemoved],
       [text |-> "Total Diff", value |-> Len(r.Differences)],
       [text |-> ""],
       [text |-> "Affected Target Labels", value |-> Len(r.Summary.AffectedTargets)] >>
    \o [i \in DOMAIN r.Summary.AffectedTargets |->
           [text |-> "target", value |-> r.Summary.AffectedTargets[i]]]

\* outputSummary: the results of the Fprintf calls are dropped, nil is returned
outputSummary(r, f, k) ==
    IF OpenOutput(f, k) # ""
    THEN [out |-> <<>>, err |-> OpenOutput(f, k), failed |-> TRUE]
    ELSE [out |-> Written(k, SummaryLines(r)),
          err |-> "",
          failed |-> \E i \in DOMAIN SummaryLines(r) : ~Accepts(k, i)]

\* `switch flags.outputFormat`
Output(r, f, k) ==
    CASE f.outputFormat = "json" -> outputJSON(r, f, k)
      [] f.outputFormat = "targets" -> outputTargetList(r, f, k)
      [] f.outputFormat = "summary" -> outputSummary(r, f, k)
      [] OTHER -> [out |-> <<>>, err |-> "unsupported output format", failed |-> FALSE]

\* main, with flags f, destination k and c the return of pkg.CompareHashFiles:
\* what was written, whether a create or write failed, the exit status
Run(f, k, c, bf, af) ==
    IF parseFlags(f, bf, af) # "" THEN [out |-> <<>>, failed |-> FALSE, exit |-> 1]
    ELSE IF c.err # "" THEN [out |-> <<>>, failed |-> FALSE, exit |-> 1]
    ELSE LET o == Output(c.result, f, k)
         IN [out |-> o.out, failed |-> o.failed, exit |-> IF o.err # "" THEN 1 ELSE 0]

main ==
    /\ pc = "start"
    /\ \E f \in Flags :
          \E k \in Sinks(f), c \in CompareHashFiles(beforeFile, afterFile) :
             LET run == Run(f, k, c, beforeFile, afterFile)
             IN /\ flags' = f
                /\ sink' = [k EXCEPT !.failed = run.failed]
                /\ out' = run.out
                /\ exitCode' = run.exit
    /\ pc' = "exited"
    /\ UNCHANGED <<beforeFile, afterFile, result, err, result2, labels,
                   queryResults, persistedData, storeFile, storeErr, loaded>>

NextDiffer == main

SpecDiffer == Init /\ [][NextDiffer]_vars

\* a snapshot file could not be loaded
LoadFailed ==
    \/ LoadPersistedHashes(beforeFile).err # ""
    \/ LoadPersistedHashes(afterFile).err # ""

\* the label has a Difference Record to get
Affected(B, A, l) == \E c \in Configs : Differs(B, A, l, c)

C7_ExitNonZeroOnFailure ==
    (pc = "exited" /\ flags.outputFormat \in {"json", "targets", "summary"}) =>
        ((exitCode # 0) <=> (LoadFailed \/ sink.failed))

(***************************************************************************)
(* The snapshot store: PersistHashes, then LoadPersistedHashes of the file *)
(* it wrote.                                                               *)
(***************************************************************************)
\* 0xab and 0x01 0xef: target hashes as TargetHashCache.Hash returns them
HashBytes == {<<171>>, <<1, 239>>}

\* "/w", "/" 0xff (not UTF-8), "/" 0xc3 0xa9 (UTF-8 of U+00E9): workspace paths
WorkspacePaths == {<<47, 119>>, <<47, 255>>, <<47, 195, 169>>}

\* the readings of time.Now(): an instant, the local zone offset, and the
\* monotonic clock reading every time.Now() carries
Clock == {[wall |-> 1000, off |-> 0, mono |-> 5], [wall |-> 1000, off |-> 3600, mono |-> 5]}

HexDigit(n) == IF n < 10 THEN 48 + n ELSE 87 + n

\* hex.EncodeToString
RECURSIVE EncodeToString(_)
EncodeToString(bytes) ==
    IF bytes = <<>> THEN <<>>
    ELSE <<HexDigit(Head(bytes) \div 16), HexDigit(Head(bytes) % 16)>>
         \o EncodeToString(Tail(bytes))

\* the arguments of PersistHashes: targets maps label.String() to
\* config.String() to the hash of the pair, hashErr says whether
\* TargetHashCache.Hash fails
StoreInputs ==
    [gitCommitSha : {BeforeSha},
     targets : {m \in UNION {[L -> UNION {[S -> HashBytes] : S \in SUBSET Configs}] :
                             L \in SUBSET Labels} : Entries(m) <= MaxEntries},
     hashErr : BOOLEAN,
     BazelRelease : {<<55>>},
     WorkspacePath : WorkspacePaths,
     targetsPattern : {<<47, 47, 46, 46, 46>>}]

\* the two loops of PersistHashes: targetHashes
TargetHashesOf(q) ==
    [l \in DOMAIN q.targets |->
        [c \in DOMAIN q.targets[l] |-> EncodeToString(q.targets[l][c])]]

\* persistedData := PersistedHashData{...}
PersistedHashData(q, now) ==
    [GitCommitSha |-> q.gitCommitSha,
     Timestamp |-> now,
     BazelRelease |-> q.BazelRelease,
     TargetHashes |-> TargetHashesOf(q),
     TargetHashesNil |-> FALSE,
     Metadata |-> [TargetsPattern |-> q.targetsPattern,
                   WorkspacePath |-> q.WorkspacePath,
                   TotalTargets |-> Entries(q.targets)]]

InitStore ==
    /\ pc = "start"
    /\ beforeFile = MissingFile
    /\ afterFile = MissingFile
    /\ queryResults \in StoreInputs
    /\ result = Nil
    /\ err = ""
    /\ result2 = Nil
    /\ labels = Nil
    /\ flags = Nil
    /\ sink = Nil
    /\ out = <<>>
    /\ exitCode = -1
    /\ persistedData = Nil
    /\ storeFile = MissingFile
    /\ storeErr = ""
    /\ loaded = Nil

\* PersistHashes(filePath, gitCommitSha, queryResults, context, targetsPattern)
PersistHashes ==
    /\ pc = "start"
    /\ \/ /\ queryResults.hashErr
          /\ Entries(queryResults.targets) > 0
          /\ storeErr' = "failed to get hash for target"
          /\ pc' = "persist failed"
          /\ UNCHANGED <<persistedData, storeFile>>
       \/ /\ ~(queryResults.hashErr /\ Entries(queryResults.targets) > 0)
          /\ \E now \in Clock :
                /\ persistedData' = PersistedHashData(queryResults, now)
                /\ \/ /\ storeErr' = "failed to create hash file"
                      /\ pc' = "persist failed"
                      /\ UNCHANGED storeFile
                   \/ /\ storeErr' = "failed to encode hash data"
                      /\ pc' = "persist failed"
                      /\ storeFile' = MalformedFile
                   \/ /\ storeErr' = ""
                      /\ pc' = "persisted"
                      /\ storeFile' = Marshal(persistedData')
    /\ UNCHANGED <<beforeFile, afterFile, result, err, result2, labels, flags, sink,
                   out, exitCode, queryResults, loaded>>

\* loaded, err := LoadPersistedHashes(filePath) of the file written
CallLoadPersistedHashes ==
    /\ pc \in {"persisted", "persist failed"}
    /\ loaded' = LoadPersistedHashes(storeFile).data
    /\ storeErr' = LoadPersistedHashes(storeFile).err
    /\ pc' = IF pc = "persisted" THEN "loaded" ELSE "loaded after failure"
    /\ UNCHANGED <<beforeFile, afterFile, result, err, result2, labels, flags, sink,
                   out, exitCode, queryResults, persistedData, storeFile>>

NextStore ==
    \/ PersistHashes
    \/ CallLoadPersistedHashes

SpecStore == InitStore /\ [][NextStore]_vars

\* equality of two snapshots, field by field; two timestamps are equal when
\* they are the same instant (Time.Equal)
SnapshotEqual(a, b) ==
    /\ a.GitCommitSha = b.GitCommitSha
    /\ TimeEqual(a.Timestamp, b.Timestamp)
    /\ a.BazelRelease = b.BazelRelease
    /\ a.TargetHashes = b.TargetHashes
    /\ a.TargetHashesNil = b.TargetHashesNil
    /\ a.Metadata = b.Metadata

\* utf8.ValidString
RECURSIVE ValidString(_)
ValidString(b) ==
    IF b = <<>> THEN TRUE
    ELSE LET b1 == b[1]
             n == Len(b)
         IN IF b1 < 128 THEN ValidString(Tail(b))
            ELSE IF b1 \in 194..223
            THEN n >= 2 /\ IsCont(b[2]) /\ ValidString(SubSeq(b, 3, n))
            ELSE IF b1 \in 224..239
            THEN /\ n >= 3
                 /\ SecondOK(b1, b[2])
                 /\ IsCont(b[3])
                 /\ ValidString(SubSeq(b, 4, n))
            ELSE IF b1 \in 240..244
            THEN /\ n >= 4
                 /\ SecondOK(b1, b[2])
                 /\ IsCont(b[3])
                 /\ IsCont(b[4])
                 /\ ValidString(SubSeq(b, 5, n))
            ELSE FALSE

\* every string of the snapshot
TextOf(d) ==
    {d.GitCommitSha, d.BazelRelease, d.Metadata.TargetsPattern, d.Metadata.WorkspacePath}
    \cup DOMAIN d.TargetHashes
    \cup UNION {DOMAIN d.TargetHashes[l] : l \in DOMAIN d.TargetHashes}
    \cup UNION {Range(d.TargetHashes[l]) : l \in DOMAIN d.TargetHashes}

\* C8 as stated: loading what PersistHashes saved yields a snapshot equal to
\* the one saved in every field.
C8_RoundTripEveryField ==
    pc = "loaded" => (storeErr = "" /\ loaded # Nil /\ SnapshotEqual(loaded, persistedData))

\* C8 amended: loading what PersistHashes saved yields a snapshot equal to the
\* one saved in every field (the timestamp as the same instant), labels with
\* an empty configuration map included, provided every string of the snapshot
\* is valid UTF-8.
C8_RoundTripValidText ==
    (pc = "loaded" /\ \A t \in TextOf(persistedData) : ValidString(t)) =>
        (storeErr = "" /\ loaded # Nil /\ SnapshotEqual(loaded, persistedData))

\* a loaded snapshot with a label that has configurations, a label with an
\* empty configuration map, a workspace path with a two-byte rune, and a
\* timestamp in a zone with an offset
C8_Witness ==
    /\ pc = "loaded"
    /\ \A t \in TextOf(persistedData) : ValidString(t)
    /\ \E l \in DOMAIN persistedData.TargetHashes : DOMAIN persistedData.TargetHashes[l] = {}
    /\ \E l \in DOMAIN persistedData.TargetHashes : DOMAIN persistedData.TargetHashes[l] # {}
    /\ persistedData.Metadata.WorkspacePath = <<47, 195, 169>>
    /\ persistedData.Timestamp.off # 0

\* neither file is a snapshot: unreadable, malformed, or without target_hashes
Invalid(f) == f.kind # "object" \/ "target_hashes" \notin f.present

\* C5: LoadPersistedHashes returns no snapshot with a defaulted (nil)
\* targetHashes: for input that is unreadable, malformed or lacks
\* target_hashes it returns an error and no snapshot, and CompareHashFiles
\* then returns an error and no Comparison Result.
C5_NoDefaultedTargetHashes ==
    pc = "compared" =>
        /\ \A f \in {beforeFile, afterFile} :
              LET l == LoadPersistedHashes(f)
              IN /\ l.data # Nil => ~l.data.TargetHashesNil
                 /\ Invalid(f) => (l.data = Nil /\ l.err # "")
        /\ (Invalid(beforeFile) \/ Invalid(afterFile)) => (result = Nil /\ err # "")

====
